---- MODULE Spec2Model ----
(***************************************************************************)
(* Model of the arena allocator of src/main.rs: a byte buffer carved into  *)
(* blocks by two bytes of inline metadata, first-fit allocation with       *)
(* splitting, and coalescing on free.                                      *)
(*                                                                         *)
(* The buffer `stack` is a sequence of bytes; byte i of the Rust Vec is    *)
(* stack[i + 1].  A Meta is a record [addr, free, size, prev, next] where  *)
(* the Rust Option::None is the value None.  Handles are the Meta values   *)
(* returned by allocate: snapshots, never refreshed from the buffer.       *)
(*                                                                         *)
(* usize arithmetic: a subtraction that underflows panics when the build   *)
(* has overflow checks (debug profile) and wraps otherwise (release        *)
(* profile).  A wrapped value 2^64 + v (v < 0) is represented by v, which  *)
(* is exact for the additions, the `as u8` truncation and the unsigned     *)
(* comparisons the code performs on it.  `overflow_checks` is the build's   *)
(* setting, fixed for a run; a panic ends the run.                         *)
(***************************************************************************)
EXTENDS Integers, Sequences, FiniteSets, TLC

\* ------------------------------------------------------------------ bounds
\* largest arena capacity explored by Spec
MaxCapacity == 24
\* longest tail, in bytes past a chunk boundary, of the arenas of Spec whose
\* capacity is not a multiple of chunk_size
MaxTail == 2
\* largest size passed to allocate by Spec
MaxSize == 7
\* number of handles the caller holds at once
MaxLive == 3
\* largest capacity constructed by SpecNew
MaxNewCapacity == 255

\* --------------------------------------------------------------- constants
META_SIZE == 2
chunk_size == 8
MainCapacity == 64
MainSizeA == 12
MainSizeB == 6
\* main holds two handles, a and b
MainLive == 2

None == -1

VARIABLES stack, live, overflow_checks, last, mainpc

vars == <<stack, live, overflow_checks, last, mainpc>>

NoMeta == [addr |-> None, free |-> FALSE, size |-> 0, prev |-> None, next |-> None]

\* `x as u8`
U8(x) == x % 256

\* ---------------------------------------------------------------- Stack::ceil
\* no rounding at all
ceil_exact(size) == size

\* rounding down instead of up
ceil_floor(size) == (size \div chunk_size) * chunk_size

ceil(size) == ((size + chunk_size - 1) \div chunk_size) * chunk_size

\* ----------------------------------------------------------- Stack::read_meta
\* the two index expressions stack[addr] and stack[addr + 1] are in bounds
read_ok(s, addr) == addr + 1 < Len(s)

\* read_meta without the bound "next < self.stack.len()" of line 54
read_meta_unbounded(s, addr) ==
    LET first == s[addr + 1]
        free  == (first % 2) = 1
        size  == first \div 2
        pb    == s[addr + 2]
        prev  == IF pb < addr THEN pb ELSE None
        nx    == ceil(addr + META_SIZE + size)
        next  == IF addr < nx THEN nx ELSE None
    IN  [addr |-> addr, free |-> free, size |-> size, prev |-> prev, next |-> next]

read_meta(s, addr) ==
    LET first == s[addr + 1]
        free  == (first % 2) = 1
        size  == first \div 2
        pb    == s[addr + 2]
        prev  == IF pb < addr THEN pb ELSE None
        nx    == ceil(addr + META_SIZE + size)
        next  == IF addr < nx /\ nx < Len(s) THEN nx ELSE None
    IN  [addr |-> addr, free |-> free, size |-> size, prev |-> prev, next |-> next]

\* ---------------------------------------------------------- Stack::write_meta
\* result: the buffer after the writes that happened, and whether an index
\* was out of bounds (the first byte is written before the second is indexed)
write_meta(s, meta) ==
    LET b0 == ((U8(meta.size) * 2) % 256) + (IF meta.free THEN 1 ELSE 0)
        b1 == U8(IF meta.prev = None THEN 0 ELSE meta.prev)
    IN  IF meta.addr < 0 \/ meta.addr >= Len(s)
        THEN [panic |-> TRUE, stack |-> s]
        ELSE IF meta.addr + 1 >= Len(s)
        THEN [panic |-> TRUE, stack |-> [s EXCEPT ![meta.addr + 1] = b0]]
        ELSE [panic |-> FALSE,
              stack |-> [s EXCEPT ![meta.addr + 1] = b0, ![meta.addr + 2] = b1]]

\* ----------------------------------------------------------------- Stack::new
new(size) ==
    write_meta([i \in 1..size |-> 0],
               [addr |-> 0, free |-> TRUE, prev |-> None, next |-> None,
                size |-> size - META_SIZE]).stack

\* ----------------------------------------------------------- Stack::find_free
\* the search without the test of the free flag
RECURSIVE find_free_any(_, _, _)
find_free_any(s, size, addr) ==
    IF ~read_ok(s, addr)
    THEN [tag |-> "panic", meta |-> NoMeta]
    ELSE LET meta == read_meta(s, addr)
         IN  IF size <= meta.size
             THEN [tag |-> "ok", meta |-> meta]
             ELSE IF meta.next # None
             THEN find_free_any(s, size, meta.next)
             ELSE [tag |-> "err", meta |-> NoMeta]

RECURSIVE find_free(_, _, _)
find_free(s, size, addr) ==
    IF ~read_ok(s, addr)
    THEN [tag |-> "panic", meta |-> NoMeta]
    ELSE LET meta == read_meta(s, addr)
         IN  IF meta.free /\ size <= meta.size
             THEN [tag |-> "ok", meta |-> meta]
             ELSE IF meta.next # None
             THEN find_free(s, size, meta.next)
             ELSE [tag |-> "err", meta |-> NoMeta]

\* ------------------------------------------------------------- Stack::collect
RECURSIVE collect_from(_, _)
collect_from(s, addr) ==
    IF ~read_ok(s, addr)
    THEN [tag |-> "panic", metas |-> <<>>]
    ELSE LET meta == read_meta(s, addr)
         IN  IF meta.next = None
             THEN [tag |-> "ok", metas |-> <<meta>>]
             ELSE LET rest == collect_from(s, meta.next)
                  IN  [tag |-> rest.tag, metas |-> <<meta>> \o rest.metas]

collect(s) == collect_from(s, 0)

\* a collect that also rewrites the first header with its size rounded to
\* the block's footprint
enumerate_tidy(s) ==
    LET c == collect_from(s, 0)
        m == read_meta(s, 0)
    IN  [tag |-> c.tag, metas |-> c.metas,
         stack |-> write_meta(s, [m EXCEPT !.size = ceil(m.size + META_SIZE)
                                                    - META_SIZE]).stack]

\* a call of collect(&self): its result, and the buffer after the call,
\* which the shared borrow leaves as it was
enumerate(s) ==
    LET c == collect_from(s, 0)
    IN  [tag |-> c.tag, metas |-> c.metas, stack |-> s]

\* ------------------------------------------------------------ Stack::allocate
\* allocate with a split that also relinks the block after the split region
\* (what lines 97-107 do not do); kept for comparison with allocate
allocate_relink(s, checks, size) ==
    LET found == find_free(s, size, 0)
    IN  IF found.tag # "ok"
        THEN [tag |-> found.tag, meta |-> NoMeta, stack |-> s]
        ELSE
        LET meta0     == [found.meta EXCEPT !.free = FALSE, !.size = size]
            limit     == IF meta0.next = None THEN Len(s) ELSE meta0.next
            next_addr == ceil(meta0.addr + META_SIZE + meta0.size)
            diff      == limit - next_addr
        IN  IF diff < 0 /\ checks
            THEN [tag |-> "panic", meta |-> NoMeta, stack |-> s]
            ELSE IF diff < 0 \/ diff >= chunk_size
            THEN LET w1   == write_meta(s, [addr |-> next_addr, free |-> TRUE,
                                            size |-> diff - META_SIZE,
                                            prev |-> meta0.addr,
                                            next |-> meta0.next])
                     meta == [meta0 EXCEPT !.next = next_addr]
                     w2   == write_meta(w1.stack, meta)
                     w3   == IF meta0.next # None /\ read_ok(w2.stack, meta0.next)
                             THEN [w2.stack EXCEPT ![meta0.next + 2] = U8(next_addr)]
                             ELSE w2.stack
                 IN  IF w1.panic
                     THEN [tag |-> "panic", meta |-> NoMeta, stack |-> w1.stack]
                     ELSE IF w2.panic
                     THEN [tag |-> "panic", meta |-> NoMeta, stack |-> w2.stack]
                     ELSE [tag |-> "ok", meta |-> meta, stack |-> w3]
            ELSE LET w2 == write_meta(s, meta0)
                 IN  IF w2.panic
                     THEN [tag |-> "panic", meta |-> NoMeta, stack |-> w2.stack]
                     ELSE [tag |-> "ok", meta |-> meta0, stack |-> w2.stack]

\* result: [tag, meta, stack]; tag is "ok" (Ok(meta)), "err" (the
\* "Not enough room in stack" error) or "panic"
allocate(s, checks, size) ==
    LET found == find_free(s, size, 0)
    IN  IF found.tag # "ok"
        THEN [tag |-> found.tag, meta |-> NoMeta, stack |-> s]
        ELSE
        LET meta0     == [found.meta EXCEPT !.free = FALSE, !.size = size]
            limit     == IF meta0.next = None THEN Len(s) ELSE meta0.next
            next_addr == ceil(meta0.addr + META_SIZE + meta0.size)
            diff      == limit - next_addr
        IN  IF diff < 0 /\ checks
            THEN [tag |-> "panic", meta |-> NoMeta, stack |-> s]
            ELSE IF diff < 0 \/ diff >= chunk_size
            THEN LET w1   == write_meta(s, [addr |-> next_addr, free |-> TRUE,
                                            size |-> diff - META_SIZE,
                                            prev |-> meta0.addr,
                                            next |-> meta0.next])
                     meta == [meta0 EXCEPT !.next = next_addr]
                     w2   == write_meta(w1.stack, meta)
                 IN  IF w1.panic
                     THEN [tag |-> "panic", meta |-> NoMeta, stack |-> w1.stack]
                     ELSE IF w2.panic
                     THEN [tag |-> "panic", meta |-> NoMeta, stack |-> w2.stack]
                     ELSE [tag |-> "ok", meta |-> meta, stack |-> w2.stack]
            ELSE LET w2 == write_meta(s, meta0)
                 IN  IF w2.panic
                     THEN [tag |-> "panic", meta |-> NoMeta, stack |-> w2.stack]
                     ELSE [tag |-> "ok", meta |-> meta0, stack |-> w2.stack]

\* ---------------------------------------------------------------- Stack::free
\* lines 118-126: backward coalescing, on the Meta value only
free_prev(s, meta) ==
    IF meta.prev = None
    THEN [panic |-> FALSE, meta |-> meta]
    ELSE IF ~read_ok(s, meta.prev)
    THEN [panic |-> TRUE, meta |-> meta]
    ELSE LET prev == read_meta(s, meta.prev)
         IN  IF prev.free
             THEN [panic |-> FALSE,
                   meta |-> [meta EXCEPT !.size = meta.size + (meta.addr - prev.addr),
                                         !.addr = prev.addr,
                                         !.prev = prev.prev]]
             ELSE [panic |-> FALSE, meta |-> meta]

\* lines 128-146: forward coalescing and repair of the successor's back-link
free_next(s, meta) ==
    IF meta.next = None
    THEN [panic |-> FALSE, meta |-> meta, stack |-> s]
    ELSE IF ~read_ok(s, meta.next)
    THEN [panic |-> TRUE, meta |-> meta, stack |-> s]
    ELSE LET next == read_meta(s, meta.next)
         IN  IF next.free
             THEN LET merged == [meta EXCEPT !.size = meta.size + META_SIZE + next.size]
                  IN  IF next.next = None
                      THEN [panic |-> FALSE, meta |-> merged, stack |-> s]
                      ELSE IF ~read_ok(s, next.next)
                      THEN [panic |-> TRUE, meta |-> merged, stack |-> s]
                      ELSE LET w == write_meta(s, [read_meta(s, next.next)
                                                     EXCEPT !.prev = merged.addr])
                           IN  [panic |-> w.panic, meta |-> merged, stack |-> w.stack]
             ELSE LET w == write_meta(s, [next EXCEPT !.prev = meta.addr])
                  IN  [panic |-> w.panic, meta |-> meta, stack |-> w.stack]

\* result: [tag, meta, stack, underflow]; underflow records that line 116
\* subtracted META_SIZE from a smaller value
free(s, checks, h) ==
    LET c     == ceil(h.size)
        under == c < META_SIZE
        meta1 == [h EXCEPT !.free = TRUE, !.size = c - META_SIZE]
    IN  IF under /\ checks
        THEN [tag |-> "panic", meta |-> NoMeta, stack |-> s, underflow |-> TRUE]
        ELSE
        LET p == free_prev(s, meta1)
        IN  IF p.panic
            THEN [tag |-> "panic", meta |-> NoMeta, stack |-> s, underflow |-> under]
            ELSE
            LET n == free_next(s, p.meta)
            IN  IF n.panic
                THEN [tag |-> "panic", meta |-> NoMeta, stack |-> n.stack,
                      underflow |-> under]
                ELSE
                LET w == write_meta(n.stack, n.meta)
                IN  IF w.panic
                    THEN [tag |-> "panic", meta |-> NoMeta, stack |-> w.stack,
                          underflow |-> under]
                    ELSE [tag |-> "ok", meta |-> n.meta, stack |-> w.stack,
                          underflow |-> under]

\* ------------------------------------------------------------------- main
\* position of the call history in main's sequence: 0 after Stack::new(64),
\* 1 after a = allocate(12), 2 after b = allocate(6), 3 after free(a),
\* 4 after free(b); None once the history has left that sequence
main_after_allocate(pc, s, size) ==
    IF pc = 0 /\ size = MainSizeA THEN 1
    ELSE IF pc = 1 /\ size = MainSizeB THEN 2
    ELSE None

\* at position 2 the caller holds a (size 12) and b (size 6)
main_after_free(pc, h) ==
    IF pc = 2 /\ h.size = MainSizeA THEN 3
    ELSE IF pc = 3 THEN 4
    ELSE None

\* ------------------------------------------------------------ state machine
Running == last.tag # "panic"

InitWith(caps) ==
    /\ \E c \in caps : stack = new(c)
    /\ live = {}
    /\ overflow_checks \in BOOLEAN
    /\ last = [op |-> "new", size |-> Len(stack), h |-> NoMeta, tag |-> "ok",
               ret |-> NoMeta, underflow |-> FALSE, metas |-> <<>>]
    /\ mainpc = IF Len(stack) = MainCapacity THEN 0 ELSE None

\* Capacities of Spec: the smallest arena (a header alone), the multiples of
\* chunk_size, and one chunk followed by a tail of 1..MaxTail bytes: a tail
\* of one byte is too short for a header, a longer one holds a header.
Capacities ==
    {META_SIZE}
    \cup {c \in META_SIZE..MaxCapacity : c % chunk_size = 0}
    \cup {chunk_size + t : t \in 1..MaxTail}

\* Sizes of Spec: 0, and from the largest size whose block fits one chunk
\* (chunk_size - META_SIZE) upwards; sizes 1..5 round as 6 does.
Sizes == {0} \cup ((chunk_size - META_SIZE)..MaxSize)

Init == InitWith(Capacities)

Allocate(size) ==
    /\ Running
    /\ LET r == allocate(stack, overflow_checks, size)
       IN  /\ stack' = r.stack
           /\ live' = IF r.tag = "ok" THEN live \cup {r.meta} ELSE live
           /\ last' = [op |-> "allocate", size |-> size, h |-> NoMeta,
                       tag |-> r.tag, ret |-> r.meta, underflow |-> FALSE,
                       metas |-> <<>>]
           /\ mainpc' = IF r.tag = "ok" THEN main_after_allocate(mainpc, stack, size)
                        ELSE None
    /\ UNCHANGED overflow_checks

Free(h) ==
    /\ Running
    /\ h \in live
    /\ LET r == free(stack, overflow_checks, h)
       IN  /\ stack' = r.stack
           /\ live' = live \ {h}
           /\ last' = [op |-> "free", size |-> 0, h |-> h, tag |-> r.tag,
                       ret |-> r.meta, underflow |-> r.underflow,
                       metas |-> <<>>]
           /\ mainpc' = IF r.tag = "ok" THEN main_after_free(mainpc, h)
                        ELSE None
    /\ UNCHANGED overflow_checks

\* print: the enumeration of the chain; main calls it between its steps
Enumerate ==
    /\ Running
    /\ LET r == enumerate(stack)
       IN  /\ stack' = r.stack
           /\ last' = [op |-> "collect", size |-> 0, h |-> NoMeta, tag |-> r.tag,
                       ret |-> NoMeta, underflow |-> FALSE, metas |-> r.metas]
    /\ UNCHANGED <<live, overflow_checks, mainpc>>

Next ==
    \/ Cardinality(live) < MaxLive /\ \E size \in Sizes : Allocate(size)
    \/ \E h \in live : Free(h)
    \/ Enumerate

Spec == Init /\ [][Next]_vars

\* arenas of main's capacity, called with main's sizes
MainSizes == {MainSizeA, MainSizeB}

InitMain == InitWith({MainCapacity})

NextMain ==
    \/ Cardinality(live) < MainLive /\ \E size \in MainSizes : Allocate(size)
    \/ \E h \in live : Free(h)
    \/ Enumerate

SpecMain == InitMain /\ [][NextMain]_vars

\* construction alone, for every capacity that holds a header
InitNew ==
    /\ stack = <<>>
    /\ live = {}
    /\ overflow_checks \in BOOLEAN
    /\ last = [op |-> "none", size |-> 0, h |-> NoMeta, tag |-> "ok",
               ret |-> NoMeta, underflow |-> FALSE, metas |-> <<>>]
    /\ mainpc = None

New(size) ==
    /\ last.op = "none"
    /\ stack' = new(size)
    /\ last' = [last EXCEPT !.op = "new", !.size = size]
    /\ mainpc' = IF size = MainCapacity THEN 0 ELSE None
    /\ UNCHANGED <<live, overflow_checks>>

NextNew == \E size \in META_SIZE..MaxNewCapacity : New(size)

SpecNew == InitNew /\ [][NextNew]_vars

\* ------------------------------------------------------------ chain walks
\* The loop of collect (lines 157-161) and the recursion of find_free (lines
\* 74-86), one read_meta per step, over buffers the allocator need not have
\* produced.  last.size is the size searched for (None: collect), last.ret
\* the header just decoded, last.metas the headers visited so far.

\* the sizes a header byte can hold that sit at the edges of a footprint,
\* and the largest one (7 bits)
WalkSizes ==
    {0, U8(-1) \div 2}
    \cup {(k * chunk_size) - META_SIZE + d :
             k \in 1..(MaxCapacity \div chunk_size), d \in {0, 1}}

WalkBytes == {(2 * sz) + f : sz \in WalkSizes, f \in {0, 1}}

\* a buffer of c bytes whose chunk-aligned bytes are the header bytes hb (the
\* only bytes a walk from offset 0 decodes a size from)
Buffer(c, hb) ==
    [i \in 1..c |-> IF (i - 1) % chunk_size = 0
                    THEN hb[(i - 1) \div chunk_size]
                    ELSE 0]

InitWalk ==
    /\ \E c \in Capacities :
         \E hb \in [0..((c - 1) \div chunk_size) -> WalkBytes] :
            stack = Buffer(c, hb)
    /\ live = {}
    /\ overflow_checks = TRUE
    /\ \E search \in {None} \cup Sizes :
         last = [op |-> "walk", size |-> search, h |-> NoMeta, tag |-> "ok",
                 ret |-> NoMeta, underflow |-> FALSE, metas |-> <<>>]
    /\ mainpc = None

WalkRead(addr) ==
    /\ IF ~read_ok(stack, addr)
       THEN last' = [last EXCEPT !.op = "read_meta", !.tag = "panic"]
       ELSE LET meta == read_meta(stack, addr)
            IN  last' = [last EXCEPT !.op = "read_meta", !.ret = meta,
                                     !.metas = Append(@, meta)]
    /\ UNCHANGED <<stack, live, overflow_checks, mainpc>>

WalkStart ==
    /\ last.op = "walk"
    /\ WalkRead(0)

\* the search stops at a free block that is large enough; both walks stop at
\* a header without a next
WalkStep ==
    /\ last.op = "read_meta"
    /\ last.tag = "ok"
    /\ last.ret.next # None
    /\ ~(last.size # None /\ last.ret.free /\ last.size <= last.ret.size)
    /\ Len(last.metas) <= (Len(stack) \div chunk_size) + 1
    /\ WalkRead(last.ret.next)

NextWalk ==
    \/ WalkStart
    \/ WalkStep

SpecWalk == InitWalk /\ [][NextWalk]_vars

\* ------------------------------------------------------------ the chain
\* enumerate(): the blocks decoded from offset 0 in the current buffer
Chain == collect(stack)

Blocks == Chain.metas

Capacity == Len(stack)

\* the address boundaries and free/used flags of an enumeration
Shape(metas) == [i \in 1..Len(metas) |-> <<metas[i].addr, metas[i].free>>]

\* the blocks of an enumeration that can serve allocate(size)
Fits(metas, size) == {i \in 1..Len(metas) : metas[i].free /\ size <= metas[i].size}

\* ------------------------------------------------------------------ C1
\* C1 (coverage): in every state reached by allocate and free on live
\* handles, enumerating from offset 0 succeeds and yields blocks that start
\* at 0, each followed by the block at its derived next with no overlap, the
\* last one having no next and ending inside the buffer, at capacity.
C1_Coverage ==
    Running =>
        /\ Chain.tag = "ok"
        /\ Blocks[1].addr = 0
        /\ \A i \in 1..(Len(Blocks) - 1) :
              /\ Blocks[i].next = Blocks[i + 1].addr
              /\ Blocks[i].addr + META_SIZE + Blocks[i].size <= Blocks[i + 1].addr
        /\ Blocks[Len(Blocks)].next = None
        /\ Blocks[Len(Blocks)].addr + META_SIZE + Blocks[Len(Blocks)].size <= Capacity

\* ------------------------------------------------------------------ C2
\* C2 (no adjacent free blocks): after a free call on a live handle has
\* returned, no two consecutive blocks of the enumeration are both free.
C2_NoAdjacentFree ==
    (last.op = "free" /\ last.tag = "ok") =>
        \A i \in 1..(Len(Blocks) - 1) : ~(Blocks[i].free /\ Blocks[i + 1].free)

\* ------------------------------------------------------------------ C3
\* C3 (round trip): from every reachable state, for every size that
\* allocate accepts, allocate followed at once by free of the returned block
\* completes and gives an enumeration with the same addresses and free/used
\* flags as before the allocate.
C3_RoundTrip ==
    Running =>
        \A size \in Sizes :
            LET a == allocate(stack, overflow_checks, size)
            IN  a.tag = "ok" =>
                    LET f == free(a.stack, overflow_checks, a.meta)
                    IN  /\ f.tag = "ok"
                        /\ collect(f.stack).tag = "ok"
                        /\ Shape(collect(f.stack).metas) = Shape(Blocks)

\* ------------------------------------------------------------------ C4
\* C4 (out of space): an allocate(size) call made when no free block of the
\* enumeration has size >= size returns the error and leaves every byte of
\* the buffer as it was, and allocate returns the error only then.
C4_OutOfSpace ==
    [][last'.op = "allocate" =>
          LET nofit == Fits(Blocks, last'.size) = {}
          IN  /\ nofit => (last'.tag = "err" /\ stack' = stack)
              /\ last'.tag = "err" => nofit]_vars

\* ------------------------------------------------------------------ C5
\* C5 (first fit): a successful allocate(size) returns the block at the
\* lowest address among the blocks that were free with size >= size in the
\* enumeration before the call, and the buffer then records that block as
\* used with size exactly size.
C5_FirstFit ==
    [][(last'.op = "allocate" /\ last'.tag = "ok") =>
          LET fits == Fits(Blocks, last'.size)
              ret  == last'.ret
          IN  /\ \E i \in fits : Blocks[i].addr = ret.addr
              /\ \A i \in fits : ret.addr <= Blocks[i].addr
              /\ read_ok(stack', ret.addr)
              /\ ~read_meta(stack', ret.addr).free
              /\ read_meta(stack', ret.addr).size = last'.size]_vars

\* a successful allocate that passed over at least one block
C5_Witness ==
    /\ last.op = "allocate"
    /\ last.tag = "ok"
    /\ last.ret.addr > 0
    /\ ~read_meta(stack, last.ret.addr).free
    /\ read_meta(stack, last.ret.addr).size = last.size

\* ------------------------------------------------------------------ C6
\* C6 (free never fails): every free of a live handle completes and returns
\* a block, without a panic and without an underflow of its size arithmetic.
C6_FreeNeverFails ==
    last.op = "free" => (last.tag = "ok" /\ ~last.underflow)

\* ------------------------------------------------------------------ C7
\* C7 (split threshold): for a successful allocate(size) on the free block
\* at addr whose region ends at limit, with next_addr the chunk-rounded end
\* of the allocated block: if limit - next_addr is below one chunk the
\* enumeration keeps its length and gains no free block; otherwise it has
\* one more block, and the block at next_addr is free, of size
\* limit - next_addr - 2, with prev = addr.
C7_SplitThreshold ==
    [][(last'.op = "allocate" /\ last'.tag = "ok") =>
          LET addr      == last'.ret.addr
              picked    == read_meta(stack, addr)
              limit     == IF picked.next = None THEN Capacity ELSE picked.next
              next_addr == ceil(addr + META_SIZE + last'.size)
              after     == collect(stack')
              freeAt(m) == {m[i].addr : i \in {j \in 1..Len(m) : m[j].free}}
          IN  /\ after.tag = "ok"
              /\ IF limit - next_addr < chunk_size
                 THEN /\ Len(after.metas) = Len(Blocks)
                      /\ freeAt(after.metas) \subseteq freeAt(Blocks)
                 ELSE /\ Len(after.metas) = Len(Blocks) + 1
                      /\ freeAt(after.metas) \ freeAt(Blocks) = {next_addr}
                      /\ \E i \in 1..Len(after.metas) :
                            /\ after.metas[i].addr = next_addr
                            /\ after.metas[i].free
                            /\ after.metas[i].size = limit - next_addr - META_SIZE
                            /\ after.metas[i].prev = addr]_vars

\* ------------------------------------------------------------------ C8
\* C8 (free returns the block as it now exists): the block returned by a
\* free of a live handle is free and equals, field by field, the block that
\* decoding the buffer at its address, and the enumeration, then report.
C8_FreeReturnsDecoded ==
    (last.op = "free" /\ last.tag = "ok") =>
        /\ last.ret.free
        /\ read_ok(stack, last.ret.addr)
        /\ read_meta(stack, last.ret.addr) = last.ret
        /\ \E i \in 1..Len(Blocks) : Blocks[i] = last.ret

\* ------------------------------------------------------------------ C9
\* C9 (construction): right after new(capacity), for every capacity from 2
\* to 255, the enumeration is exactly one block: address 0, free, size
\* capacity - 2, no prev, no next.
C9_NewOneBlock ==
    last.op = "new" =>
        /\ Chain.tag = "ok"
        /\ Blocks = <<[addr |-> 0, free |-> TRUE, size |-> Capacity - META_SIZE,
                       prev |-> None, next |-> None]>>

\* ------------------------------------------------------------------ C10
\* C10 (main's scenario): on the arena of 64 bytes the enumeration is one
\* free block at 0 of size 62; after allocate(12) it is used@0 size 12,
\* free@16 size 46; after allocate(6) it is used@0 size 12, used@16 size 6,
\* free@24 size 38; after freeing the block at 0 it is free@0 size 14,
\* used@16, free@24; after freeing the block at 16 it is one free block at
\* 0 of size 62.
Sized(metas) == [i \in 1..Len(metas) |-> <<metas[i].addr, metas[i].free, metas[i].size>>]

C10_MainScenario ==
    /\ mainpc # None => Chain.tag = "ok"
    /\ mainpc = 0 => Sized(Blocks) = << <<0, TRUE, 62>> >>
    /\ mainpc = 1 => Sized(Blocks) = << <<0, FALSE, 12>>, <<16, TRUE, 46>> >>
    /\ mainpc = 2 => Sized(Blocks) = << <<0, FALSE, 12>>, <<16, FALSE, 6>>, <<24, TRUE, 38>> >>
    /\ mainpc = 3 => Sized(Blocks) = << <<0, TRUE, 14>>, <<16, FALSE, 6>>, <<24, TRUE, 38>> >>
    /\ mainpc = 4 => Sized(Blocks) = << <<0, TRUE, 62>> >>

\* main has run to its end: both blocks allocated and both freed
C10_Witness ==
    /\ mainpc = 4
    /\ last.op = "free"
    /\ last.h.addr = 16
    /\ live = {}

\* ------------------------------------------------------------------ C11
\* C11 (enumerate is read-only and repeatable): an enumerate call leaves
\* every byte of the buffer unchanged, and an enumerate call that follows
\* another with no allocate or free between them returns the same blocks.
C11_EnumerateReadOnly ==
    [][last'.op = "collect" =>
          /\ stack' = stack
          /\ last.op = "collect" => (last'.metas = last.metas /\ last'.tag = last.tag)]_vars

\* an enumeration of a chain of several blocks, some of them used
C11_Witness ==
    /\ last.op = "collect"
    /\ last.tag = "ok"
    /\ Len(last.metas) >= 2
    /\ \E i \in 1..Len(last.metas) : ~last.metas[i].free
    /\ last.metas = collect(stack).metas

\* ------------------------------------------------------------------ C12
\* C12 (prev consistency): in every state reached by allocate and free on
\* live handles, the first block of the enumeration has no prev and every
\* other block's stored prev is the address of the block just before it.
C12_PrevConsistent ==
    Running =>
        /\ Blocks[1].prev = None
        /\ \A i \in 2..Len(Blocks) : Blocks[i].prev = Blocks[i - 1].addr

\* ------------------------------------------------------------------ C13
\* C13 (free keeps the footprint): when free is called on a live handle
\* whose predecessor and successor both exist and are used, it completes
\* and records the block as free with a size whose derived next is the
\* address of the successor the block had while allocated, for every size
\* allocate accepted.
BothNeighboursUsed(s, h) ==
    /\ h.prev # None
    /\ h.next # None
    /\ read_ok(s, h.prev)
    /\ read_ok(s, h.next)
    /\ ~read_meta(s, h.prev).free
    /\ ~read_meta(s, h.next).free

C13_FreeKeepsFootprint ==
    [][(last'.op = "free" /\ BothNeighboursUsed(stack, last'.h)) =>
          /\ last'.tag = "ok"
          /\ read_meta(stack', last'.h.addr).free
          /\ read_meta(stack', last'.h.addr).next = last'.h.next]_vars

\* ------------------------------------------------------------------ C14
\* C14 (allocate's frame): a successful allocate changes only the two
\* metadata bytes of the allocated block and, when it splits, the two
\* metadata bytes of the new free block; every other byte, the prev byte of
\* the block after the original free region included, keeps its value.
C14_AllocateFrame ==
    [][(last'.op = "allocate" /\ last'.tag = "ok") =>
          LET m       == last'.ret
              old     == read_meta(stack, m.addr)
              touched == {m.addr, m.addr + 1} \cup
                         (IF m.next # old.next THEN {m.next, m.next + 1} ELSE {})
          IN  /\ Len(stack') = Len(stack)
              /\ \A i \in 1..Len(stack) :
                    stack'[i] # stack[i] => (i - 1) \in touched]_vars

\* a split has just happened in front of an existing block, whose prev byte
\* still names the allocated block
C14_Witness ==
    /\ last.op = "allocate" /\ last.tag = "ok"
    /\ last.ret.next # None
    /\ read_ok(stack, last.ret.next)
    /\ LET f == read_meta(stack, last.ret.next)
       IN  /\ f.free
           /\ f.prev = last.ret.addr
           /\ f.next # None
           /\ read_meta(stack, f.next).prev = last.ret.addr

\* ------------------------------------------------------------------ C15
\* C15 (blocks stay inside the buffer): while the program runs, an
\* enumeration and a search for any size read no index past the end of the
\* buffer, and every block of the enumerated chain satisfies
\* addr + META_SIZE + size <= capacity.
C15_InsideBuffer ==
    Running =>
        /\ Chain.tag = "ok"
        /\ \A size \in Sizes : find_free(stack, size, 0).tag # "panic"
        /\ \A i \in 1..Len(Blocks) :
              Blocks[i].addr + META_SIZE + Blocks[i].size <= Capacity

\* ------------------------------------------------------------------ C16
\* C16 (chain walks terminate): for every buffer content, the walk of
\* enumerate and of the free-block search from offset 0 visits strictly
\* increasing addresses below the capacity, at most
\* capacity / chunk_size + 1 of them, and a decoded next is either none or
\* strictly between the block's address and the capacity.
C16_WalkTerminates ==
    last.op = "read_meta" =>
        /\ Len(last.metas) <= (Capacity \div chunk_size) + 1
        /\ \A i \in 1..Len(last.metas) : last.metas[i].addr < Capacity
        /\ \A i \in 2..Len(last.metas) :
              last.metas[i - 1].addr < last.metas[i].addr
        /\ (last.tag = "ok" /\ last.ret.next # None) =>
              (last.ret.addr < last.ret.next /\ last.ret.next < Capacity)

\* an enumeration that has finished after three blocks on a buffer no
\* sequence of calls produces (the last header holds the largest size)
C16_Witness ==
    /\ last.op = "read_meta" /\ last.tag = "ok" /\ last.size = None
    /\ last.ret.next = None
    /\ Len(last.metas) = 3
    /\ last.ret.size = U8(-1) \div 2
    /\ last.metas = collect(stack).metas

\* ------------------------------------------------------------------ C17
\* C17 (chunk alignment): while the program runs, the address of every block
\* of the enumerated chain, and of the block a successful allocate or free
\* has just returned, is a multiple of chunk_size.
C17_ChunkAligned ==
    Running =>
        /\ \A i \in 1..Len(Blocks) : Blocks[i].addr % chunk_size = 0
        /\ (last.op \in {"allocate", "free"} /\ last.tag = "ok") =>
              last.ret.addr % chunk_size = 0

\* a free that merged backwards has returned the address of the free block
\* before the handle, which is not offset 0
C17_Witness ==
    /\ last.op = "free" /\ last.tag = "ok"
    /\ last.ret.addr = chunk_size
    /\ last.h.addr = 2 * chunk_size
    /\ Len(Blocks) >= 2

\* ------------------------------------------------------------------ C18
\* C18 (live allocations never overlap): while the program runs, any two
\* live handles occupy disjoint byte ranges [addr, addr + META_SIZE + size),
\* and no free block of the enumerated chain shares a byte with a live
\* handle's range.
Range(m) == m.addr..(m.addr + META_SIZE + m.size - 1)

C18_LiveDisjoint ==
    Running =>
        /\ \A h1, h2 \in live : h1 # h2 => Range(h1) \cap Range(h2) = {}
        /\ \A h \in live : \A i \in 1..Len(Blocks) :
              Blocks[i].free => Range(h) \cap Range(Blocks[i]) = {}

\* ------------------------------------------------------------------ C19
\* C19 (full release restores the arena): once every block allocate has
\* returned has been freed, a free having just returned, the enumerated
\* chain is a single free block at address 0 of size capacity - META_SIZE,
\* as right after new.
C19_FullRelease ==
    (last.op = "free" /\ live = {}) =>
        /\ last.tag = "ok"
        /\ Chain.tag = "ok"
        /\ Len(Blocks) = 1
        /\ Blocks[1].free
        /\ Blocks[1].addr = 0
        /\ Blocks[1].size = Capacity - META_SIZE

\* ------------------------------------------------------------------ C20
\* C20 (freed memory becomes free): right after free(h) has returned for a
\* live handle h, the chain enumerated from offset 0 contains a free block
\* whose byte range contains the whole range h occupied.
C20_FreedIsFree ==
    (last.op = "free" /\ last.tag = "ok") =>
        /\ Chain.tag = "ok"
        /\ \E i \in 1..Len(Blocks) :
              /\ Blocks[i].free
              /\ Range(last.h) \subseteq Range(Blocks[i])

====
